---- MODULE Spec2Model ----
(***************************************************************************)
(* Model of src/src/App.js, the Commercial Electric Load Calculator:       *)
(* the equipment form and table, the facility form, calculateTotals, the   *)
(* debounced irradiance lookup and the PDF export.                         *)
(*                                                                         *)
(* Numbers.  A JavaScript number is a pair <<n, d>>: the rational n/d in   *)
(* lowest terms when d > 0, and NaN, +Infinity, -Infinity when d = 0       *)
(* (n = 0, 1, -1).  Arithmetic is exact: binary rounding of the doubles    *)
(* is not modelled.  Strings typed into inputs are sequences of            *)
(* one-character strings, parsed the way parseInt, parseFloat and Number   *)
(* parse them.                                                             *)
(***************************************************************************)
EXTENDS Integers, Sequences, FiniteSets, TLC

(***************************************************************************)
(* JavaScript numbers                                                      *)
(***************************************************************************)
Abs(x) == IF x < 0 THEN -x ELSE x

Sign(x) == IF x > 0 THEN 1 ELSE IF x < 0 THEN -1 ELSE 0

RECURSIVE GCD(_, _)
GCD(a, b) == IF b = 0 THEN a ELSE GCD(b, a % b)

NaN == <<0, 0>>

Infinity == <<1, 0>>

NegInfinity == <<-1, 0>>

Norm(n, d) ==
  IF d = 0 THEN <<Sign(n), 0>>
  ELSE LET g == GCD(Abs(n), Abs(d))
           s == IF d < 0 THEN -1 ELSE 1
       IN  <<s * (n \div g), s * (d \div g)>>

Num(k) == <<k, 1>>

isNaN(x) == x = NaN

isFinite(x) == x[2] # 0

\* a + b
Add(a, b) ==
  IF isNaN(a) \/ isNaN(b) THEN NaN
  ELSE IF a[2] = 0 THEN (IF b[2] = 0 /\ b # a THEN NaN ELSE a)
  ELSE IF b[2] = 0 THEN b
  ELSE Norm(a[1] * b[2] + b[1] * a[2], a[2] * b[2])

\* a * b
Mul(a, b) ==
  IF isNaN(a) \/ isNaN(b) THEN NaN
  ELSE IF a[2] = 0 \/ b[2] = 0 THEN <<Sign(a[1]) * Sign(b[1]), 0>>
  ELSE Norm(a[1] * b[1], a[2] * b[2])

\* a / b
Div(a, b) ==
  IF isNaN(a) \/ isNaN(b) THEN NaN
  ELSE IF a[2] = 0 THEN (IF b[2] = 0 THEN NaN
                         ELSE <<a[1] * (IF b[1] < 0 THEN -1 ELSE 1), 0>>)
  ELSE IF b[2] = 0 THEN Num(0)
  ELSE IF b[1] = 0 THEN <<Sign(a[1]), 0>>
  ELSE Norm(a[1] * b[2], a[2] * b[1])

\* a > b ; every comparison with NaN is false
Gt(a, b) ==
  /\ ~isNaN(a)
  /\ ~isNaN(b)
  /\ IF a[2] = 0 \/ b[2] = 0
     THEN a # b /\ (a = Infinity \/ b = NegInfinity)
     ELSE a[1] * b[2] > b[1] * a[2]

\* a >= b
Ge(a, b) == ~isNaN(a) /\ ~isNaN(b) /\ (a = b \/ Gt(a, b))

\* ToBoolean of a number: NaN and 0 are falsy
Truthy(x) == ~isNaN(x) /\ x[1] # 0

\* x || 0
OrZero(x) == IF Truthy(x) THEN x ELSE Num(0)

\* Math.round: the nearest integer, halves toward +Infinity
MathRound(x) ==
  IF x[2] = 0 THEN x ELSE Num((2 * x[1] + x[2]) \div (2 * x[2]))

(***************************************************************************)
(* Strings and their conversions                                           *)
(***************************************************************************)
DigitVal ==
  [c \in {"0", "1", "2", "3", "4", "5", "6", "7", "8", "9"} |->
     CASE c = "0" -> 0 [] c = "1" -> 1 [] c = "2" -> 2 [] c = "3" -> 3
       [] c = "4" -> 4 [] c = "5" -> 5 [] c = "6" -> 6 [] c = "7" -> 7
       [] c = "8" -> 8 [] c = "9" -> 9]

Digits == DOMAIN DigitVal

DigitChar == <<"0", "1", "2", "3", "4", "5", "6", "7", "8", "9">>

RECURSIVE Pow10(_)
Pow10(k) == IF k = 0 THEN 1 ELSE 10 * Pow10(k - 1)

\* first index >= i of s that does not hold a digit
RECURSIVE DigitsEnd(_, _)
DigitsEnd(s, i) ==
  IF i <= Len(s) /\ s[i] \in Digits THEN DigitsEnd(s, i + 1) ELSE i

\* the value of the digits s[i] .. s[j-1]
RECURSIVE DigitsVal(_, _, _)
DigitsVal(s, i, j) ==
  IF j <= i THEN 0 ELSE DigitsVal(s, i, j - 1) * 10 + DigitVal[s[j - 1]]

SignOf(s) == IF Len(s) > 0 /\ s[1] = "-" THEN -1 ELSE 1

AfterSign(s) == IF Len(s) > 0 /\ s[1] \in {"-", "+"} THEN 2 ELSE 1

\* parseInt(s, 10): optional sign, then the longest run of digits
parseInt(s) ==
  LET st == AfterSign(s)
      e  == DigitsEnd(s, st)
  IN  IF e = st THEN NaN ELSE Num(SignOf(s) * DigitsVal(s, st, e))

\* the decimal literal that starts s: <<value, index after it>>, the value
\* NaN when s starts with no digit
DecimalPrefix(s) ==
  LET st == AfterSign(s)
      e1 == DigitsEnd(s, st)
      dot == e1 <= Len(s) /\ s[e1] = "."
      e2 == IF dot THEN DigitsEnd(s, e1 + 1) ELSE e1
      k  == IF dot THEN e2 - (e1 + 1) ELSE 0
      nd == (e1 - st) + k
      fr == IF dot THEN DigitsVal(s, e1 + 1, e2) ELSE 0
  IN  IF nd = 0 THEN <<NaN, st>>
      ELSE <<Norm(SignOf(s) * (DigitsVal(s, st, e1) * Pow10(k) + fr),
                  Pow10(k)), e2>>

\* parseFloat(s): the longest decimal literal that starts s
parseFloat(s) == DecimalPrefix(s)[1]

\* Number(s): the empty string is 0, a whole decimal literal its value,
\* anything else NaN
Number(s) ==
  IF Len(s) = 0 THEN Num(0)
  ELSE LET p == DecimalPrefix(s)
       IN  IF p[2] = Len(s) + 1 THEN p[1] ELSE NaN

\* n.toString() for a non-negative integer n
RECURSIVE toString(_)
toString(n) ==
  IF n < 10 THEN <<DigitChar[n + 1]>>
  ELSE Append(toString(n \div 10), DigitChar[(n % 10) + 1])

\* s.startsWith(p)
startsWith(s, p) == Len(s) >= Len(p) /\ SubSeq(s, 1, Len(p)) = p

\* s.trim() is the empty string
RECURSIVE trimIsEmpty(_)
trimIsEmpty(s) ==
  IF Len(s) = 0 THEN TRUE
  ELSE IF Head(s) = " " THEN trimIsEmpty(Tail(s)) ELSE FALSE

(***************************************************************************)
(* Constants of the program                                                *)
(***************************************************************************)
STANDARD_EQUIPMENT ==
  << [name |-> "AC Unit", power |-> 5000],
     [name |-> "ERV Unit", power |-> 1500],
     [name |-> "Exhaust Fan", power |-> 750],
     [name |-> "LED Lighting (per 1k sqft)", power |-> 100],
     [name |-> "Furnace Fan", power |-> 800],
     [name |-> "Roof Top AC", power |-> 12000],
     [name |-> "Computer/Workstation", power |-> 150],
     [name |-> "Commercial Washer", power |-> 4500],
     [name |-> "Commercial Dryer", power |-> 5500],
     [name |-> "Air Compressor (10hp)", power |-> 7500] >>

INITIAL_FORM_STATE ==
  [name |-> "", qty |-> <<"1">>, power |-> <<>>, hours |-> <<>>, kwh |-> <<>>]

NameMissing == "Please provide an equipment name."

LoadMissing == "Please provide either Power and Hours, or a Daily Load kWh."

InitialInfo == "Enter a zip code for a location-specific solar recommendation."

InvalidZipInfo ==
  "Enter a valid 5-digit zip code for a location-specific solar recommendation."

\* delay of debouncedFetch, ms
DebounceDelay == 500

\* a mock lookup slower than the debounce delay
LookupLatencySlow == 2 * DebounceDelay

\* latency of the mock lookup in fetchSolarData, ms
LookupLatency == 500

\* the model's clock advances in steps of half the debounce delay
Quantum == DebounceDelay \div 2

\* the debounce closure's timeout when no timer is pending
NoTimer == [pending |-> FALSE]

(***************************************************************************)
(* Bounds of the model                                                     *)
(***************************************************************************)
\* successful submissions in one behaviour (Date.now() ids 1 .. MaxSubmits)
MaxSubmits == 2

\* error-message timers pending at once
MaxErrorTimers == 1

\* exportPDF invocations in flight at once
MaxExports == 2

\* zip edits counted in one burst
MaxBurst == 2

\* items of an equipment list drawn for CalcSpec
MaxCalcItems == 2

\* items of an equipment list drawn for TableSpec
MaxTableItems == 2

(***************************************************************************)
(* State                                                                   *)
(***************************************************************************)
VARIABLES
  formData,          \* EquipmentForm: the form's fields, as typed
  errorMessage,      \* EquipmentForm: the inline validation message
  errorTimers,       \* pending setTimeout(() => setErrorMessage(""), 3000)
  equipmentList,     \* App: sequence of equipment items
  dateNow,           \* the last Date.now() used as an id; two submissions
                     \* are typed more than a millisecond apart
  facilityInfo,      \* App: streetAddress, zipCode, opHoursDay, opDaysWeek
  peakSunHours,      \* App
  irradianceInfo,    \* App
  isLoading,         \* App: the shared loading flag
  timeout,           \* the timer of the debounce closure
  lookups,           \* fetchSolarData invocations waiting on the mock call
  exports,           \* exportPDF invocations between setIsLoading(true) and finally
  calculations,      \* the value of calculateTotals() at the last render
  sinceEdit,         \* history: ms since debouncedFetch was last called
  startedSinceEdit,  \* history: lookups started since debouncedFetch was last called
  lastStarted,       \* history: the zip of the lookup started last
  burstEdits         \* history: zip edits since the last start of a lookup

vars ==
  << formData, errorMessage, errorTimers, equipmentList, dateNow, facilityInfo,
     peakSunHours, irradianceInfo, isLoading, timeout, lookups, exports,
     calculations, sinceEdit, startedSinceEdit, lastStarted, burstEdits >>

formVars == <<formData, errorMessage, errorTimers>>

lookupVars ==
  << peakSunHours, irradianceInfo, timeout, lookups, sinceEdit,
     startedSinceEdit, lastStarted, burstEdits >>

(***************************************************************************)
(* calculateTotals                                                         *)
(***************************************************************************)
\* equipmentList.reduce((sum, item) => sum + item.totalDailyKWh, 0)
RECURSIVE reduceSum(_)
reduceSum(list) ==
  IF Len(list) = 0 THEN Num(0)
  ELSE Add(reduceSum(SubSeq(list, 1, Len(list) - 1)),
           list[Len(list)].totalDailyKWh)

systemEfficiency == Norm(85, 100)

daysInMonth == Norm(3044, 100)

daysInYear == Norm(36525, 100)

\* solarPVSize without the guard on peakSunHours
solarPVSizeUnguarded(dailyEnergyNeeded, psh) ==
  IF Gt(dailyEnergyNeeded, Num(0))
  THEN Div(dailyEnergyNeeded, Mul(psh, systemEfficiency))
  ELSE Num(0)

\* the solarPVSize of calculateTotals
solarPVSize(dailyEnergyNeeded, psh) ==
  IF Gt(dailyEnergyNeeded, Num(0)) /\ Gt(psh, Num(0))
  THEN Div(dailyEnergyNeeded, Mul(psh, systemEfficiency))
  ELSE Num(0)

\* batteryStorageSize with Math.floor in the place of Math.round
batteryStorageSizeFloor(pvSize) ==
  LET rawBatterySize == Mul(pvSize, Num(2))
      fifths == Div(rawBatterySize, Num(5))
  IN  Mul(Num(fifths[1] \div fifths[2]), Num(5))

\* the batteryStorageSize of calculateTotals
batteryStorageSize(pvSize) ==
  LET rawBatterySize == Mul(pvSize, Num(2))
  IN  Mul(MathRound(Div(rawBatterySize, Num(5))), Num(5))

\* the daysPerWeek of calculateTotals
daysPerWeek(fi) == OrZero(Number(fi.opDaysWeek))

calculateTotals(fi, list, psh, info) ==
  LET daysPerMonth == Mul(Div(daysPerWeek(fi), Num(7)), daysInMonth)
      daysPerYear == Mul(Div(daysPerWeek(fi), Num(7)), daysInYear)
      totalDailyLoad == reduceSum(list)
      totalMonthlyLoad == Mul(totalDailyLoad, daysPerMonth)
      totalAnnualLoad == Mul(totalDailyLoad, daysPerYear)
      dailyEnergyNeeded ==
        IF Gt(totalAnnualLoad, Num(0)) THEN Div(totalAnnualLoad, daysInYear)
        ELSE Num(0)
      pvSize == solarPVSize(dailyEnergyNeeded, psh)
  IN  [daily |-> totalDailyLoad,
       monthly |-> totalMonthlyLoad,
       annual |-> totalAnnualLoad,
       pvSize |-> pvSize,
       batterySize |-> batteryStorageSize(pvSize),
       irradianceInfo |-> info]

\* const calculations = calculateTotals(), evaluated at the render that
\* follows every state change
Render ==
  calculations' =
    calculateTotals(facilityInfo', equipmentList', peakSunHours', irradianceInfo')

isFacilityInfoValid ==
  /\ ~trimIsEmpty(facilityInfo.streetAddress)
  /\ ~trimIsEmpty(facilityInfo.zipCode)

(***************************************************************************)
(* EquipmentForm                                                           *)
(***************************************************************************)
\* the select element: choice 0 is "Select to pre-fill form", choice i > 0
\* the i-th standard equipment
handleSelectChange(choice) ==
  /\ formData' =
       IF choice = 0
       THEN [formData EXCEPT !.name = "", !.power = <<>>, !.hours = <<>>]
       ELSE [formData EXCEPT !.name = STANDARD_EQUIPMENT[choice].name,
                             !.power = toString(STANDARD_EQUIPMENT[choice].power)]
  /\ UNCHANGED << errorMessage, errorTimers, equipmentList, dateNow,
                  facilityInfo, isLoading, exports, lookupVars >>
  /\ Render

\* an input that is disabled takes no typing: power and hours while kwh is
\* filled, kwh while power or hours is filled
inputDisabled(id) ==
  CASE id \in {"power", "hours"} -> formData.kwh # <<>>
    [] id = "kwh" -> formData.power # <<>> \/ formData.hours # <<>>
    [] OTHER -> FALSE

\* typing into the field id: name (a string), qty, power, hours or kwh
handleChange(id, value) ==
  /\ ~inputDisabled(id)
  /\ formData' =
       [formData EXCEPT ![id] =
          IF id = "hours" /\ Gt(Number(value), Num(24)) THEN <<"2", "4">>
          ELSE value]
  /\ UNCHANGED << errorMessage, errorTimers, equipmentList, dateNow,
                  facilityInfo, isLoading, exports, lookupVars >>
  /\ Render

numQty(f) == parseInt(f.qty)

numKwh(f) == parseFloat(f.kwh)

numPower(f) == parseInt(f.power)

numHours(f) == parseFloat(f.hours)

\* validation that does not look at the name
validationErrorIgnoringName(f) ==
  IF Gt(numKwh(f), Num(0)) THEN ""
  ELSE IF Gt(numPower(f), Num(0)) /\ Gt(numHours(f), Num(0)) THEN ""
  ELSE LoadMissing

\* the validation of handleSubmit: "" when the form passes
validationError(f) ==
  IF f.name = "" THEN NameMissing
  ELSE IF Gt(numKwh(f), Num(0)) THEN ""
  ELSE IF Gt(numPower(f), Num(0)) /\ Gt(numHours(f), Num(0)) THEN ""
  ELSE LoadMissing

\* the item handleSubmit hands to onAddEquipment
newItem(f, id) ==
  [id |-> id,
   name |-> f.name,
   qty |-> numQty(f),
   power |-> OrZero(numPower(f)),
   hours |-> OrZero(numHours(f)),
   totalDailyKWh |->
     IF Gt(numKwh(f), Num(0)) THEN Mul(numKwh(f), numQty(f))
     ELSE Div(Mul(Mul(numQty(f), numPower(f)), numHours(f)), Num(1000))]

\* setEquipmentList((prev) => [...prev, item])
addEquipment(list, item) == Append(list, item)

\* the browser's validation of a typed number against the input's min, max
\* and step (1 when none is given); a blank input is valid
inRange(value, hasMin, min, hasMax, max) ==
  \/ value = <<>>
  \/ /\ Number(value)[2] = 1
     /\ hasMin => Number(value)[1] >= min
     /\ hasMax => Number(value)[1] <= max

\* the form is submitted only when its enabled inputs are valid: qty
\* min="1", hours min="0" max="24", kwh min="0"
constraintsValid ==
  /\ inRange(formData.qty, TRUE, 1, FALSE, 0)
  /\ inputDisabled("power") \/ inRange(formData.power, FALSE, 0, FALSE, 0)
  /\ inputDisabled("hours") \/ inRange(formData.hours, TRUE, 0, TRUE, 24)
  /\ inputDisabled("kwh") \/ inRange(formData.kwh, TRUE, 0, FALSE, 0)

handleSubmit ==
  /\ constraintsValid
  /\ IF validationError(formData) # ""
     THEN /\ errorTimers < MaxErrorTimers
          /\ errorMessage' = validationError(formData)
          /\ errorTimers' = errorTimers + 1
          /\ UNCHANGED <<formData, equipmentList, dateNow>>
     ELSE /\ dateNow < MaxSubmits
          /\ dateNow' = dateNow + 1
          /\ equipmentList' =
               addEquipment(equipmentList, newItem(formData, dateNow + 1))
          /\ formData' = INITIAL_FORM_STATE
          /\ UNCHANGED <<errorMessage, errorTimers>>
  /\ UNCHANGED <<facilityInfo, isLoading, exports, lookupVars>>
  /\ Render

\* setTimeout(() => setErrorMessage(""), 3000) fires
clearErrorMessage ==
  /\ errorTimers > 0
  /\ errorTimers' = errorTimers - 1
  /\ errorMessage' = ""
  /\ UNCHANGED << formData, equipmentList, dateNow, facilityInfo, isLoading,
                  exports, lookupVars >>
  /\ Render

(***************************************************************************)
(* EquipmentTable                                                          *)
(***************************************************************************)
\* editItem with a qty edit that recomputes the total from power and hours
editItemRecompute(item, field, numValue) ==
  CASE field \in {"qty", "power", "hours"} ->
         LET u == [item EXCEPT ![field] = numValue]
         IN  [u EXCEPT !.totalDailyKWh =
                Div(Mul(Mul(u.qty, u.power), u.hours), Num(1000))]
    [] field = "dailyKWhPerUnit" ->
         [item EXCEPT !.power = Num(0),
                      !.hours = Num(0),
                      !.totalDailyKWh = Mul(numValue, item.qty)]
    [] OTHER -> item

\* the body of the map callback of handleEdit for the item that is edited
editItem(item, field, numValue) ==
  CASE field = "qty" ->
         LET perUnitKwh == IF Gt(item.qty, Num(0))
                           THEN Div(item.totalDailyKWh, item.qty)
                           ELSE Num(0)
         IN  [item EXCEPT !.qty = numValue,
                          !.totalDailyKWh = Mul(perUnitKwh, numValue)]
    [] field \in {"power", "hours"} ->
         LET u == [item EXCEPT ![field] = numValue]
         IN  [u EXCEPT !.totalDailyKWh =
                Div(Mul(Mul(u.qty, u.power), u.hours), Num(1000))]
    [] field = "dailyKWhPerUnit" ->
         [item EXCEPT !.power = Num(0),
                      !.hours = Num(0),
                      !.totalDailyKWh = Mul(numValue, item.qty)]
    [] OTHER -> item

\* the numValue of handleEdit
editValue(field, value) ==
  LET numValue == OrZero(parseFloat(value))
  IN  IF field = "hours" /\ Gt(numValue, Num(24)) THEN Num(24) ELSE numValue

\* the updatedList of handleEdit
updatedList(list, id, field, value) ==
  [i \in 1..Len(list) |->
     IF list[i].id = id
     THEN editItem(list[i], field, editValue(field, value))
     ELSE list[i]]

hasRow(id) == \E i \in 1..Len(equipmentList) : equipmentList[i].id = id

\* typing into the cell `field` of the row of item id
handleEdit(id, field, value) ==
  /\ hasRow(id)
  /\ equipmentList' = updatedList(equipmentList, id, field, value)
  /\ UNCHANGED <<formVars, dateNow, facilityInfo, isLoading, exports, lookupVars>>
  /\ Render

\* prev.filter((item) => item.id !== id)
RECURSIVE filterOut(_, _)
filterOut(list, id) ==
  IF Len(list) = 0 THEN <<>>
  ELSE IF Head(list).id # id
       THEN <<Head(list)>> \o filterOut(Tail(list), id)
       ELSE filterOut(Tail(list), id)

\* the Remove button of the row of item id
removeEquipment(id) ==
  /\ hasRow(id)
  /\ equipmentList' = filterOut(equipmentList, id)
  /\ UNCHANGED <<formVars, dateNow, facilityInfo, isLoading, exports, lookupVars>>
  /\ Render

(***************************************************************************)
(* Facility form, debounced lookup                                         *)
(***************************************************************************)
\* the value handleFacilityInfoChange stores for field id
facilityValue(id, value) ==
  IF id = "opDaysWeek" /\ value # <<>> /\ Gt(parseInt(value), Num(7))
  THEN <<"7">>
  ELSE value

\* debounce without clearTimeout: a pending timer is left to run
debounceNoClear(t, arg) ==
  IF t.pending THEN t
  ELSE [pending |-> TRUE, arg |-> arg, remaining |-> DebounceDelay]

\* a call of the debounced function: clearTimeout, then setTimeout
debounce(t, arg) ==
  [pending |-> TRUE, arg |-> arg, remaining |-> DebounceDelay]

\* typing into the facility field id; the effect on [facilityInfo.zipCode]
\* calls debouncedFetch when the zip code has changed
handleFacilityInfoChange(id, value) ==
  /\ facilityInfo' = [facilityInfo EXCEPT ![id] = facilityValue(id, value)]
  /\ IF facilityInfo'.zipCode # facilityInfo.zipCode
     THEN /\ timeout' = debounce(timeout, facilityInfo'.zipCode)
          /\ sinceEdit' = 0
          /\ startedSinceEdit' = 0
          /\ burstEdits' = IF ~timeout.pending THEN 1
                           ELSE IF burstEdits < MaxBurst THEN burstEdits + 1
                           ELSE burstEdits
     ELSE UNCHANGED <<timeout, sinceEdit, startedSinceEdit, burstEdits>>
  /\ UNCHANGED << formVars, equipmentList, dateNow, isLoading, exports,
                  peakSunHours, irradianceInfo, lookups, lastStarted >>
  /\ Render

\* the if-chain of fetchSolarData
solarData(zip) ==
  IF startsWith(zip, <<"8", "5">>) \/ startsWith(zip, <<"8", "6">>)
  THEN [psh |-> Norm(65, 10), loc |-> "Arizona"]
  ELSE IF startsWith(zip, <<"9">>)
  THEN [psh |-> Norm(55, 10), loc |-> "the West Coast"]
  ELSE IF startsWith(zip, <<"9", "8">>) \/ startsWith(zip, <<"9", "9">>)
  THEN [psh |-> Norm(38, 10), loc |-> "the Pacific Northwest"]
  ELSE IF startsWith(zip, <<"3">>)
  THEN [psh |-> Norm(50, 10), loc |-> "the Southeast"]
  ELSE [psh |-> Norm(45, 10), loc |-> "an average US location"]

\* `Using solar irradiance data for ${loc}. Est. Peak Sun Hours: ${psh}.`
usingInfo(d) == <<"Using solar irradiance data for", d.loc, d.psh>>

\* time passes by one quantum; no timer is overdue
Tick ==
  /\ timeout.pending \/ lookups # <<>>
  /\ timeout.pending => timeout.remaining >= Quantum
  /\ \A i \in 1..Len(lookups) : lookups[i].remaining >= Quantum
  /\ timeout' = IF timeout.pending
                THEN [timeout EXCEPT !.remaining = @ - Quantum]
                ELSE timeout
  /\ lookups' = [i \in 1..Len(lookups) |->
                   [lookups[i] EXCEPT !.remaining = @ - Quantum]]
  /\ sinceEdit' = IF sinceEdit + Quantum > DebounceDelay THEN DebounceDelay
                  ELSE sinceEdit + Quantum
  /\ UNCHANGED << formVars, equipmentList, dateNow, facilityInfo, isLoading,
                  exports, peakSunHours, irradianceInfo, startedSinceEdit,
                  lastStarted, burstEdits >>
  /\ Render

\* the debounce timer fires and fetchSolarData(zip) runs up to its await;
\* of the timers that are due, those set earlier have fired
debouncedFetch ==
  /\ timeout.pending
  /\ timeout.remaining = 0
  /\ \A i \in 1..Len(lookups) : lookups[i].remaining > 0
  /\ timeout' = NoTimer
  /\ startedSinceEdit' = startedSinceEdit + 1
  /\ lastStarted' = timeout.arg
  /\ IF Len(timeout.arg) < 5
     THEN /\ irradianceInfo' = InvalidZipInfo
          /\ peakSunHours' = Norm(45, 10)
          /\ UNCHANGED <<isLoading, lookups>>
     ELSE /\ isLoading' = TRUE
          /\ lookups' = Append(lookups, [zip |-> timeout.arg,
                                         remaining |-> LookupLatency])
          /\ UNCHANGED <<irradianceInfo, peakSunHours>>
  /\ UNCHANGED << formVars, equipmentList, dateNow, facilityInfo, exports,
                  sinceEdit, burstEdits >>
  /\ Render

\* the mock call of the oldest lookup resolves and fetchSolarData finishes
fetchSolarDataResumes ==
  /\ lookups # <<>>
  /\ Head(lookups).remaining = 0
  /\ lookups' = Tail(lookups)
  /\ peakSunHours' = solarData(Head(lookups).zip).psh
  /\ irradianceInfo' = usingInfo(solarData(Head(lookups).zip))
  /\ isLoading' = FALSE
  /\ UNCHANGED << formVars, equipmentList, dateNow, facilityInfo, exports,
                  timeout, sinceEdit, startedSinceEdit, lastStarted, burstEdits >>
  /\ Render

(***************************************************************************)
(* Export                                                                  *)
(***************************************************************************)
\* the Download PDF Report button is activated.  The button sits in the
\* results view, hidden until the facility information is valid; nothing in
\* exportPDF or on the button looks at isLoading (the loading overlay is a
\* styled div: it neither disables the button nor takes the focus from it).
exportPDF ==
  /\ isFacilityInfoValid
  /\ exports < MaxExports
  /\ exports' = exports + 1
  /\ isLoading' = TRUE
  /\ UNCHANGED <<formVars, equipmentList, dateNow, facilityInfo, lookupVars>>
  /\ Render

\* an exportPDF invocation reaches its finally block, after pdf.save or
\* after the catch of a failed script load
exportPDFFinally ==
  /\ exports > 0
  /\ exports' = exports - 1
  /\ isLoading' = FALSE
  /\ UNCHANGED <<formVars, equipmentList, dateNow, facilityInfo, lookupVars>>
  /\ Render

(***************************************************************************)
(* Initial states                                                          *)
(***************************************************************************)
\* App and EquipmentForm as constructed; the effect of the first render has
\* called debouncedFetch("")
Init ==
  /\ formData = INITIAL_FORM_STATE
  /\ errorMessage = ""
  /\ errorTimers = 0
  /\ equipmentList = <<>>
  /\ dateNow = 0
  /\ facilityInfo = [streetAddress |-> <<>>, zipCode |-> <<>>,
                     opHoursDay |-> <<"1", "0">>, opDaysWeek |-> <<"5">>]
  /\ peakSunHours = Norm(45, 10)
  /\ irradianceInfo = InitialInfo
  /\ isLoading = FALSE
  /\ timeout = debounce(NoTimer, <<>>)
  /\ lookups = <<>>
  /\ exports = 0
  /\ calculations =
       calculateTotals(facilityInfo, equipmentList, peakSunHours, irradianceInfo)
  /\ sinceEdit = 0
  /\ startedSinceEdit = 0
  /\ lastStarted = <<>>
  /\ burstEdits = 0

\* the state DebounceDelay ms after construction when nothing was typed:
\* the timer has fired and fetchSolarData("") has returned early
Settled ==
  /\ formData = INITIAL_FORM_STATE
  /\ errorMessage = ""
  /\ errorTimers = 0
  /\ equipmentList = <<>>
  /\ dateNow = 0
  /\ facilityInfo = [streetAddress |-> <<>>, zipCode |-> <<>>,
                     opHoursDay |-> <<"1", "0">>, opDaysWeek |-> <<"5">>]
  /\ peakSunHours = Norm(45, 10)
  /\ irradianceInfo = InvalidZipInfo
  /\ isLoading = FALSE
  /\ timeout = NoTimer
  /\ lookups = <<>>
  /\ exports = 0
  /\ calculations =
       calculateTotals(facilityInfo, equipmentList, peakSunHours, irradianceInfo)
  /\ sinceEdit = DebounceDelay
  /\ startedSinceEdit = 1
  /\ lastStarted = <<>>
  /\ burstEdits = 0

(***************************************************************************)
(* Spec: the equipment form and the equipment table                        *)
(***************************************************************************)
Ids == 1..MaxSubmits

TypedNames == {"", "Pump"}

TypedQty == {<<"1">>, <<"2">>}

TypedPower == {<<>>, <<"1", "0", "0">>}

TypedHours == {<<>>, <<"2">>}

TypedKwh == {<<>>, <<"5">>}

EditedQty == {<<>>, <<"4">>}

EditedPower == {<<"1", "0", "0">>}

EditedHours == {<<"3", "0">>}

EditedKwh == {<<"5">>}

Next ==
  \/ \E v \in TypedNames : handleChange("name", v)
  \/ \E v \in TypedQty : handleChange("qty", v)
  \/ \E v \in TypedPower : handleChange("power", v)
  \/ \E v \in TypedHours : handleChange("hours", v)
  \/ \E v \in TypedKwh : handleChange("kwh", v)
  \/ handleSubmit
  \/ clearErrorMessage
  \/ \E id \in Ids, v \in EditedQty : handleEdit(id, "qty", v)
  \/ \E id \in Ids, v \in EditedPower : handleEdit(id, "power", v)
  \/ \E id \in Ids, v \in EditedHours : handleEdit(id, "hours", v)
  \/ \E id \in Ids, v \in EditedKwh : handleEdit(id, "dailyKWhPerUnit", v)
  \/ \E id \in Ids : removeEquipment(id)

Spec == Settled /\ [][Next]_vars

(***************************************************************************)
(* FormSpec: the equipment form with every kind of typed value              *)
(***************************************************************************)
\* choices of the select element: none, "AC Unit"
FormChoices == {0, 1}

FormQty == {<<>>, <<"1">>, <<"0">>}

FormPower == {<<>>, <<"0">>}

FormHours == {<<>>, <<"3", "0">>}

FormKwh == {<<>>, <<"5">>}

FormNext ==
  \/ \E c \in FormChoices : handleSelectChange(c)
  \/ \E v \in TypedNames : handleChange("name", v)
  \/ \E v \in FormQty : handleChange("qty", v)
  \/ \E v \in FormPower : handleChange("power", v)
  \/ \E v \in FormHours : handleChange("hours", v)
  \/ \E v \in FormKwh : handleChange("kwh", v)
  \/ handleSubmit
  \/ clearErrorMessage
  \/ \E id \in Ids : removeEquipment(id)

FormSpec == Settled /\ [][FormNext]_vars

(***************************************************************************)
(* FacilitySpec: the days-of-operation field over submitted equipment       *)
(***************************************************************************)
TypedDays ==
  { <<"0">>, <<"3">>, <<"5">>, <<"7">>, <<"1", "0">>, <<"-", "3">>,
    <<"7", ".", "5">> }

FacilityQty == {<<"1">>, <<"2">>}

FacilityKwh == {<<>>, <<"5">>, <<"5", "0">>}

FacilityNext ==
  \/ \E v \in TypedDays : handleFacilityInfoChange("opDaysWeek", v)
  \/ \E v \in TypedNames : handleChange("name", v)
  \/ \E v \in FacilityQty : handleChange("qty", v)
  \/ \E v \in FacilityKwh : handleChange("kwh", v)
  \/ handleSubmit
  \/ clearErrorMessage
  \/ \E id \in Ids : removeEquipment(id)

FacilitySpec == Settled /\ [][FacilityNext]_vars

(***************************************************************************)
(* LookupSpec: the zip code, the debounced lookup and the export            *)
(***************************************************************************)
TypedZips ==
  { <<>>,
    <<"9", "4", "0", "4">>,
    <<"9", "4", "0", "4", "3">>,
    <<"8", "5", "0", "0", "1">>,
    <<"9", "8", "1", "0", "1">>,
    <<"3", "3", "1", "0", "1">>,
    <<"1", "0", "0", "0", "1">> }

TypedStreets == {<<>>, <<" ">>, <<"1", " ", "M", "a", "i", "n">>}

LookupNext ==
  \/ \E v \in TypedZips : handleFacilityInfoChange("zipCode", v)
  \/ \E v \in TypedStreets : handleFacilityInfoChange("streetAddress", v)
  \/ Tick
  \/ debouncedFetch
  \/ fetchSolarDataResumes
  \/ exportPDF
  \/ exportPDFFinally

LookupSpec == Init /\ [][LookupNext]_vars

(***************************************************************************)
(* CalcSpec: calculateTotals over drawn equipment lists and sun hours       *)
(***************************************************************************)
\* forms that pass the validation of handleSubmit
CalcForms ==
  { [name |-> "Pump", qty |-> q, power |-> <<>>, hours |-> <<>>, kwh |-> k] :
      q \in {<<>>, <<"1">>, <<"2">>}, k \in {<<"5">>, <<"5", "0">>} }
  \cup
  { [name |-> "Pump", qty |-> <<"1">>, power |-> <<"1", "0", "0">>,
     hours |-> <<"2">>, kwh |-> <<>>] }

\* the items these submissions add, and the items that a table edit of
\* their qty to -1 makes of them
CalcItems ==
  { newItem(f, 0) : f \in CalcForms }
  \cup
  { editItem(newItem(f, 0), "qty", editValue("qty", <<"-", "1">>)) :
      f \in CalcForms }

\* the lists of at most MaxCalcItems of these items, with ids 1, 2, ...
CalcLists ==
  UNION { { [i \in 1..n |-> [its[i] EXCEPT !.id = i]] :
              its \in [1..n -> CalcItems] } :
          n \in 0..MaxCalcItems }

\* the values fetchSolarData can set, and the 0 and 3.8 it never sets
CalcPsh ==
  { Num(0), Norm(38, 10), Norm(45, 10), Num(5), Norm(55, 10), Norm(65, 10) }

CalcInit ==
  /\ formData = INITIAL_FORM_STATE
  /\ errorMessage = ""
  /\ errorTimers = 0
  /\ equipmentList \in CalcLists
  /\ dateNow = Len(equipmentList)
  /\ facilityInfo = [streetAddress |-> <<>>, zipCode |-> <<>>,
                     opHoursDay |-> <<"1", "0">>, opDaysWeek |-> <<"5">>]
  /\ peakSunHours \in CalcPsh
  /\ irradianceInfo = InvalidZipInfo
  /\ isLoading = FALSE
  /\ timeout = NoTimer
  /\ lookups = <<>>
  /\ exports = 0
  /\ calculations =
       calculateTotals(facilityInfo, equipmentList, peakSunHours, irradianceInfo)
  /\ sinceEdit = DebounceDelay
  /\ startedSinceEdit = 1
  /\ lastStarted = <<>>
  /\ burstEdits = 0

CalcDays == TypedDays \cup {<<>>} \cup {toString(d) : d \in 0..7}

CalcNext == \E v \in CalcDays : handleFacilityInfoChange("opDaysWeek", v)

CalcSpec == CalcInit /\ [][CalcNext]_vars

(***************************************************************************)
(* TableSpec: the equipment table over submitted equipment                  *)
(***************************************************************************)
\* forms that pass the validation of handleSubmit
TableForms ==
  { [name |-> "Pump", qty |-> q, power |-> <<>>, hours |-> <<>>,
     kwh |-> <<"5">>] : q \in TypedQty }
  \cup
  { [name |-> "Pump", qty |-> q, power |-> <<"1", "0", "0">>,
     hours |-> <<"2">>, kwh |-> <<>>] : q \in TypedQty }

\* the lists of at most MaxTableItems items that submissions of TableForms
\* build
TableLists ==
  UNION { { [i \in 1..n |-> newItem(fs[i], i)] : fs \in [1..n -> TableForms] } :
          n \in 0..MaxTableItems }

TableInit ==
  /\ formData = INITIAL_FORM_STATE
  /\ errorMessage = ""
  /\ errorTimers = 0
  /\ equipmentList \in TableLists
  /\ dateNow = Len(equipmentList)
  /\ facilityInfo = [streetAddress |-> <<>>, zipCode |-> <<>>,
                     opHoursDay |-> <<"1", "0">>, opDaysWeek |-> <<"5">>]
  /\ peakSunHours = Norm(45, 10)
  /\ irradianceInfo = InvalidZipInfo
  /\ isLoading = FALSE
  /\ timeout = NoTimer
  /\ lookups = <<>>
  /\ exports = 0
  /\ calculations =
       calculateTotals(facilityInfo, equipmentList, peakSunHours, irradianceInfo)
  /\ sinceEdit = DebounceDelay
  /\ startedSinceEdit = 1
  /\ lastStarted = <<>>
  /\ burstEdits = 0

TableIds == 1..MaxTableItems

TableQty == {<<>>, <<"4">>, <<"0", ".", "5">>}

TableNext ==
  \/ \E id \in TableIds, v \in TableQty : handleEdit(id, "qty", v)
  \/ \E id \in TableIds, v \in EditedPower : handleEdit(id, "power", v)
  \/ \E id \in TableIds, v \in EditedHours : handleEdit(id, "hours", v)
  \/ \E id \in TableIds, v \in EditedKwh : handleEdit(id, "dailyKWhPerUnit", v)
  \/ \E id \in TableIds : removeEquipment(id)

TableSpec == TableInit /\ [][TableNext]_vars

(***************************************************************************)
(* SubmitSpec: typing into the form and submitting it                       *)
(***************************************************************************)
SubmitQty == {<<>>, <<"1">>}

SubmitPower == {<<>>, <<"0">>, <<"1", "0", "0">>}

SubmitNext ==
  \/ \E v \in TypedNames : handleChange("name", v)
  \/ \E v \in SubmitQty : handleChange("qty", v)
  \/ \E v \in SubmitPower : handleChange("power", v)
  \/ \E v \in TypedHours : handleChange("hours", v)
  \/ \E v \in TypedKwh : handleChange("kwh", v)
  \/ handleSubmit
  \/ clearErrorMessage

SubmitSpec == Settled /\ [][SubmitNext]_vars

(***************************************************************************)
(* Properties                                                              *)
(***************************************************************************)
\* a === b on numbers: NaN equals nothing
Eq(a, b) == ~isNaN(a) /\ ~isNaN(b) /\ a = b

ResultFields == {"daily", "monthly", "annual", "pvSize", "batterySize"}

\* derivation (a): totalDailyKWh = qty * power * hours / 1000
derivedFromPower(item) ==
  Eq(item.totalDailyKWh,
     Div(Mul(Mul(item.qty, item.power), item.hours), Num(1000)))

\* derivation (b): power = hours = 0 and totalDailyKWh = qty * u for a finite
\* per-unit value u; such a u exists when qty and the total are finite and
\* the total is 0 if qty is
derivedFromKwh(item) ==
  /\ item.power = Num(0)
  /\ item.hours = Num(0)
  /\ isFinite(item.qty)
  /\ isFinite(item.totalDailyKWh)
  /\ item.qty = Num(0) => item.totalDailyKWh = Num(0)

\* C1: in every reachable state every item of equipmentList has
\* totalDailyKWh = qty * power * hours / 1000, or has power = 0, hours = 0
\* and totalDailyKWh = qty * (a per-unit kWh value).
C1_TotalConsistent ==
  \A i \in 1..Len(equipmentList) :
    derivedFromPower(equipmentList[i]) \/ derivedFromKwh(equipmentList[i])

\* C2: in every reachable state daily, monthly, annual, pvSize and
\* batterySize of the rendered calculations are finite numbers (neither NaN
\* nor an Infinity).
C2_ResultsFinite == \A f \in ResultFields : isFinite(calculations[f])

\* C3: in every reachable state daily, monthly, annual, pvSize and
\* batterySize of the rendered calculations are >= 0.
C3_ResultsNonNegative == \A f \in ResultFields : Ge(calculations[f], Num(0))

\* the list after a qty edit of item id to the typed value v: the row of id
\* had qty > 0 and now has the typed qty and the total rescaled per unit,
\* with its other fields kept, and every other row is as it was
qtyRescaled(id, v) ==
  LET newQty == OrZero(parseFloat(v))
  IN  /\ Len(equipmentList') = Len(equipmentList)
      /\ \A i \in 1..Len(equipmentList) :
           LET old == equipmentList[i]
               new == equipmentList'[i]
           IN  IF old.id = id
               THEN Gt(old.qty, Num(0)) =>
                      /\ new.qty = newQty
                      /\ new.totalDailyKWh =
                           Mul(Div(old.totalDailyKWh, old.qty), newQty)
                      /\ new.power = old.power
                      /\ new.hours = old.hours
                      /\ new.name = old.name
                      /\ new.id = old.id
               ELSE new = old

\* C4: a table edit of the qty of an item with qty > 0 sets the item's
\* totalDailyKWh to (old total / old qty) * new qty, leaves its power and
\* hours as they were and leaves every other item of the list unchanged.
C4_QtyEditRescales ==
  [][\A id \in TableIds, v \in TableQty :
       handleEdit(id, "qty", v) => qtyRescaled(id, v)]_vars

\* C4 witness: a direct-kWh item whose qty was edited to 4 carries the total
\* 20 (5 kWh per unit, as at qty 2 and total 10), beside a second item.
C4_Witness ==
  /\ Len(equipmentList) = 2
  /\ \E i \in 1..2 :
       /\ equipmentList[i].qty = Num(4)
       /\ equipmentList[i].totalDailyKWh = Num(20)
       /\ equipmentList[i].power = Num(0)
       /\ equipmentList[i].hours = Num(0)

\* C5: in every reachable state the days per week that calculateTotals uses
\* is an integer in 1..7.
C5_DaysClamped == daysPerWeek(facilityInfo) \in {Num(d) : d \in 1..7}

\* the sum of the items' totalDailyKWh, first item first
RECURSIVE sumOfTotals(_)
sumOfTotals(list) ==
  IF list = <<>> THEN Num(0)
  ELSE Add(Head(list).totalDailyKWh, sumOfTotals(Tail(list)))

\* |a - b| < eps
near(a, b, eps) == Gt(Add(b, eps), a) /\ Gt(Add(a, eps), b)

\* C6: for opDaysWeek d in 0..7, any equipment list and any peakSunHours p,
\* the rendered calculations have daily = the sum of the items' totals,
\* monthly = daily * (d/7) * 30.44, annual = daily * (d/7) * 365.25 and
\* pvSize = (annual / 365.25) / (p * 0.85) when annual > 0 and p > 0, else 0.
C6_TotalsFormulas ==
  \A d \in 0..7 :
    facilityInfo.opDaysWeek = toString(d) =>
      LET daily == sumOfTotals(equipmentList)
          monthly == Mul(Mul(daily, Norm(d, 7)), Norm(3044, 100))
          annual == Mul(Mul(daily, Norm(d, 7)), Norm(36525, 100))
          pv == IF Gt(annual, Num(0)) /\ Gt(peakSunHours, Num(0))
                THEN Div(Div(annual, Norm(36525, 100)),
                         Mul(peakSunHours, Norm(85, 100)))
                ELSE Num(0)
      IN  /\ calculations.daily = daily
          /\ calculations.monthly = monthly
          /\ calculations.annual = annual
          /\ calculations.pvSize = pv

\* C6 witness: 5 days, one item of 50 kWh, 4.5 sun hours: daily 50, monthly
\* 1087.14, annual 13044.64 (to the cent) and pvSize within 0.01 of 9.33.
C6_Witness ==
  /\ facilityInfo.opDaysWeek = <<"5">>
  /\ Len(equipmentList) = 1
  /\ equipmentList[1].totalDailyKWh = Num(50)
  /\ peakSunHours = Norm(45, 10)
  /\ calculations.daily = Num(50)
  /\ MathRound(Mul(calculations.monthly, Num(100))) = Num(108714)
  /\ MathRound(Mul(calculations.annual, Num(100))) = Num(1304464)
  /\ near(calculations.pvSize, Norm(933, 100), Norm(1, 100))

\* C7: in every reachable state batterySize is an integer multiple of 5 and
\* is the multiple of 5 nearest to 2 * pvSize, a tie going to the larger:
\* 2 * pvSize - 2.5 < batterySize <= 2 * pvSize + 2.5.
C7_BatteryNearestFive ==
  LET b == calculations.batterySize
      raw == Mul(calculations.pvSize, Num(2))
  IN  /\ b[2] = 1
      /\ b[1] % 5 = 0
      /\ Gt(b, Add(raw, Norm(-5, 2)))
      /\ Ge(Add(raw, Norm(5, 2)), b)

\* C7 witness: pvSize within 0.01 of 9.33 is rendered with batterySize 20.
C7_Witness ==
  /\ near(calculations.pvSize, Norm(933, 100), Norm(1, 100))
  /\ calculations.batterySize = Num(20)

\* C8: a lookup is started only when DebounceDelay ms have passed since the
\* last change of the zip code: while the debounce timer is pending no lookup
\* has started since that change, the timer is for the current zip code and
\* has run for exactly the time since the change; once it has fired, exactly
\* one lookup has started since the change, for the current zip code.
C8_Debounced ==
  /\ timeout.pending =>
       /\ startedSinceEdit = 0
       /\ timeout.arg = facilityInfo.zipCode
       /\ timeout.remaining + sinceEdit = DebounceDelay
  /\ ~timeout.pending =>
       /\ startedSinceEdit = 1
       /\ lastStarted = facilityInfo.zipCode
       /\ sinceEdit = DebounceDelay

\* C8 witness: after a burst of at least two zip edits the timer has fired
\* and the one lookup started is for the last zip code typed, a full one.
C8_Witness ==
  /\ ~timeout.pending
  /\ burstEdits >= 2
  /\ startedSinceEdit = 1
  /\ lastStarted = facilityInfo.zipCode
  /\ Len(lastStarted) >= 5

\* what a lookup for zip yields
lookupYields(zip) ==
  IF Len(zip) < 5 THEN [psh |-> Norm(45, 10), info |-> InvalidZipInfo]
  ELSE [psh |-> solarData(zip).psh, info |-> usingInfo(solarData(zip))]

\* C9: once no debounce timer is pending and no lookup is in flight,
\* peakSunHours and irradianceInfo are what the lookup yields for the
\* current zip code.
C9_FreshestApplied ==
  (~timeout.pending /\ lookups = <<>>) =>
    /\ peakSunHours = lookupYields(facilityInfo.zipCode).psh
    /\ irradianceInfo = lookupYields(facilityInfo.zipCode).info

\* C9 witness: at rest after a burst of zip edits that ended on an Arizona
\* zip code, with 6.5 sun hours applied.
C9_Witness ==
  /\ ~timeout.pending
  /\ lookups = <<>>
  /\ burstEdits >= 2
  /\ facilityInfo.zipCode = <<"8", "5", "0", "0", "1">>
  /\ peakSunHours = Norm(65, 10)

\* C10: at no time are two exportPDF invocations in flight.
C10_ExportsExclusive == exports <= 1

\* the text typed into an input stands for a number above zero
typedPositive(value) == Gt(Number(value), Num(0))

\* the form has no name, or neither a per-unit kWh above zero nor both a
\* power and hours above zero
formIncomplete(f) ==
  \/ f.name = ""
  \/ /\ ~typedPositive(f.kwh)
     /\ ~(typedPositive(f.power) /\ typedPositive(f.hours))

\* the submission was refused: the inline message is set, no item was handed
\* to onAddEquipment, the list and the form fields are as they were
submitRefused ==
  /\ errorMessage' \in {NameMissing, LoadMissing}
  /\ equipmentList' = equipmentList
  /\ dateNow' = dateNow
  /\ formData' = formData

\* the submission appended exactly one item after the existing ones
submitAppended ==
  /\ Len(equipmentList') = Len(equipmentList) + 1
  /\ SubSeq(equipmentList', 1, Len(equipmentList)) = equipmentList
  /\ equipmentList'[Len(equipmentList')].name = formData.name

\* C11: a submission of a form without a name, or with neither a per-unit
\* kWh above zero nor both power and hours above zero, sets the inline error
\* message and leaves equipmentList and the form fields unchanged; a
\* submission that passes the validation appends exactly one item to the end
\* of equipmentList and keeps the existing items.
C11_SubmitValidated ==
  [][handleSubmit =>
       /\ formIncomplete(formData) => submitRefused
       /\ validationError(formData) = "" => submitAppended
       /\ submitRefused \/ submitAppended]_vars

\* C11 witness: with one item in the list, a form holding 5 kWh and no name
\* was submitted: the name message shows, the field and the list are kept.
C11_Witness ==
  /\ errorMessage = NameMissing
  /\ formData.name = ""
  /\ formData.kwh = <<"5">>
  /\ Len(equipmentList) = 1

\* C12: whenever an exportPDF invocation has started and not reached its
\* finally block, or a lookup for a zip code of 5 or more characters has
\* started and not resolved, isLoading is true.
C12_LoadingWhileInFlight == (exports > 0 \/ lookups # <<>>) => isLoading

\* the sun hours of the region a zip code's prefix denotes
regionSunHours(zip) ==
  IF startsWith(zip, <<"9", "8">>) \/ startsWith(zip, <<"9", "9">>)
  THEN Norm(38, 10)
  ELSE IF startsWith(zip, <<"8", "5">>) \/ startsWith(zip, <<"8", "6">>)
  THEN Norm(65, 10)
  ELSE IF startsWith(zip, <<"9">>) THEN Norm(55, 10)
  ELSE IF startsWith(zip, <<"3">>) THEN Norm(50, 10)
  ELSE Norm(45, 10)

\* C13: a lookup for a zip code of at least 5 characters resolves to the sun
\* hours of the region its prefix denotes: 3.8 for "98"/"99", 6.5 for
\* "85"/"86", 5.5 for any other "9", 5.0 for "3", 4.5 for every other.
C13_RegionOfPrefix ==
  [][fetchSolarDataResumes =>
       peakSunHours' = regionSunHours(Head(lookups).zip)]_vars

====
